---- MODULE Spec2Model ----
(***************************************************************************)
(* Model of driver/task_runner.go: the executor-side TaskRunner of glow.   *)
(*                                                                         *)
(* The runner (TaskRunner.Run) wires a linear group of tasks, launches one *)
(* goroutine per task and waits on a sync.WaitGroup.  The units that run   *)
(* concurrently with the runner are                                        *)
(*   dec[j]   the raw->typed adapter of first-task input slot j,           *)
(*   fwd[i]   the goroutine relaying task i's output 0 to task i+1,        *)
(*   stage[i] the goroutine running task i,                                *)
(*   enc[j]   the typed->raw adapter of last-task output slot j.           *)
(* fwd and the runner are translated from the source; tasks, shards and    *)
(* the netchan adapters live in other packages and follow spec.md.         *)
(***************************************************************************)
EXTENDS Integers, Sequences, FiniteSets, TLC

\* ------------------------------------------------------------- bounds
MaxTasks == 2       \* longest task group
MaxSlots == 2       \* most slots of a task side; a group has at most MaxSlots - 1 beyond one per side
MaxVals == 2        \* most values fed on one external input
NumContexts == 2    \* flow contexts the runner is offered
MaxLen == 5         \* longest option.Inputs string of SpecParse

VARIABLES
    option,         \* tr.option: ContextId, ChannelBufferSize, ExecutableFileHash, Inputs
    Tasks,          \* tr.Tasks: indices into group, <<>> while nil
    FlowContext,    \* tr.FlowContext: a context id, 0 while nil
    executorStatus, \* tr.executorStatus
    fcBuf,          \* fc.ChannelBufferSize of every context
    ran,            \* contexts Run has been called with
    group,          \* plan.GroupTasks(fc)[TaskGroupId].Tasks: the task objects
    ds,             \* firstTask.Outputs[0].Parent
    fed,            \* raw read channels: what the outside world wrote to each
    rawIn,          \* raw read channels: what is still to be read from each
    rawOut,         \* raw send channels: what was written to each, and closed
    pc,             \* where the runner is inside Run
    idx,            \* loop index of the wiring or launch loop in progress
    wg,             \* the sync.WaitGroup counter of Run
    name2Location,  \* the map built by connectInputsAndOutputs
    resolved,       \* the netchan resolution calls made, in order
    dec, fwd, stage, enc,   \* the concurrent units
    sent, rcvd,     \* per hop: values sent upstream / received downstream
    now             \* the clock time.Now() reads

vars == <<option, Tasks, FlowContext, executorStatus, fcBuf, ran, group, ds,
          fed, rawIn, rawOut, pc, idx, wg, name2Location, resolved,
          dec, fwd, stage, enc, sent, rcvd, now>>

Contexts == 1..NumContexts

\* ------------------------------------------------------------ strings
\* A string is a sequence of one-character strings.
Alphabet == {"a", "b", "@", ","}

Strings(n) == UNION {[1..m -> Alphabet] : m \in 0..n}

\* strconv of a small number: the %d of fmt.Sprintf
Digits == <<"0", "1", "2", "3", "4", "5", "6", "7", "8", "9">>

Itoa(n) == <<Digits[n + 1]>>

\* index of the first sep in s at or after position i, 0 when there is none
RECURSIVE IndexFrom(_, _, _)
IndexFrom(s, sep, i) ==
    IF i > Len(s) THEN 0
    ELSE IF s[i] = sep THEN i
    ELSE IndexFrom(s, sep, i + 1)

\* strings.Split(s, sep) for a one-character sep: every piece between seps
RECURSIVE Split(_, _)
Split(s, sep) ==
    LET i == IndexFrom(s, sep, 1) IN
    IF i = 0 THEN <<s>>
    ELSE <<SubSeq(s, 1, i - 1)>> \o Split(SubSeq(s, i + 1, Len(s)), sep)

\* m[k] = v on a Go map
MapPut(m, k, v) == [x \in DOMAIN m \cup {k} |-> IF x = k THEN v ELSE m[x]]

\* m[k] read from a Go map: the zero value "" when k is absent
MapGet(m, k) == IF k \in DOMAIN m THEN m[k] ELSE <<>>

EmptyMap == [x \in {} |-> <<>>]

\* the loop of connectInputsAndOutputs over the tokens; nl[1] panics (index
\* out of range) when a token holds no "@"
RECURSIVE PutTokens(_, _)
PutTokens(toks, m) ==
    IF toks = <<>> THEN [ok |-> TRUE, map |-> m]
    ELSE LET nl == Split(Head(toks), "@") IN
         IF Len(nl) < 2 THEN [ok |-> FALSE, map |-> m]
         ELSE PutTokens(Tail(toks), MapPut(m, nl[1], nl[2]))

ParseInputs(inputs) ==
    IF inputs # <<>> THEN PutTokens(Split(inputs, ","), EmptyMap)
    ELSE [ok |-> TRUE, map |-> EmptyMap]

\* ----------------------------------------------------------- channels
\* A Go channel.  closes and late are bookkeeping: how many close operations
\* and how many sends after the close it has seen.
NewChan(c) == [buf |-> <<>>, closed |-> FALSE, cap |-> c, closes |-> 0, late |-> 0]

Max(a, b) == IF a >= b THEN a ELSE b

\* a send can be started: there is room (an unbuffered channel holds the one
\* value its blocked sender offers); a send on a closed channel never blocks
CanSend(c) == c.closed \/ Len(c.buf) < Max(c.cap, 1)

\* the sender's last send has returned: on an unbuffered channel only once
\* the receiver took the value
SendDone(c) == c.cap > 0 \/ c.buf = <<>>

ChanSend(c, v) ==
    IF c.closed THEN [c EXCEPT !.late = @ + 1]
    ELSE [c EXCEPT !.buf = Append(@, v)]

ChanClose(c) == [c EXCEPT !.closed = TRUE, !.closes = @ + 1]

\* a receive returns a value / returns ok = false
CanRecv(c) == c.buf # <<>>
RecvClosed(c) == c.buf = <<>> /\ c.closed

ChanRecv(c) == [c EXCEPT !.buf = Tail(@)]

\* -------------------------------------------------------------- tasks
\* A task's Inputs slice: Go tells a nil slice from an empty one.
NilInputs == [nil |-> TRUE, len |-> 0]
SomeInputs(n) == [nil |-> FALSE, len |-> n]

FirstInputs == {NilInputs} \cup {SomeInputs(m) : m \in 0..MaxSlots}

\* A flow.Task as the planner hands it over: one typed input channel per
\* input shard, one output shard (WriteChan, reading side not set up) per
\* output slot.
NewTask(inputs, nOut, c) ==
    [Inputs |-> inputs,
     InputChans |-> [j \in 1..inputs.len |-> NewChan(c)],
     Outputs |-> [j \in 1..nOut |-> [WriteChan |-> NewChan(c), readSetup |-> 0]]]

\* the values the outside world writes to raw input j before closing it:
\* k distinct values on the first, none on the others
Feed(j, k) == IF j = 1 THEN [x \in 1..k |-> x] ELSE <<>>

\* capacities of the typed channels the planner makes: unbuffered, buffered
Capacities == {0, 1}

NoStatus == [kind |-> "nil", slot |-> 0]
InStatus(j) == [kind |-> "in", slot |-> j]
OutStatus(j) == [kind |-> "out", slot |-> j]

NewExecutorStatus ==
    [InputChannelStatuses |-> <<>>, OutputChannelStatus |-> NoStatus,
     ReadyTime |-> 0, StartTime |-> 0, StopTime |-> 0]

\* NewTaskRunner(option) and the flow graph of the context it is meant for:
\* n tasks; the first with inputs fin, the others with m inputs; the last
\* with lo outputs, the others with m; e external inputs declared on the
\* first task's output dataset; k values on every raw input; typed channels
\* of capacity c.
InitWith(inputs, n, fin, e, m, lo, k, c) ==
    /\ option = [ContextId |-> 1, ChannelBufferSize |-> 1,
                 ExecutableFileHash |-> <<"h">>, Inputs |-> inputs]
    /\ Tasks = <<>>
    /\ FlowContext = 0
    /\ executorStatus = NewExecutorStatus
    /\ fcBuf = [f \in Contexts |-> 0]
    /\ ran = {}
    /\ group = [i \in 1..n |->
                  NewTask(IF i = 1 THEN fin ELSE SomeInputs(m),
                          IF i = n THEN lo ELSE m, c)]
    /\ ds = [Id |-> 0, ExternalInputChans |-> e]
    /\ fed = [j \in 1..MaxSlots |->
                  IF j <= (IF fin.nil THEN e ELSE fin.len) THEN Feed(j, k) ELSE <<>>]
    /\ rawIn = fed
    /\ rawOut = [j \in 1..MaxSlots |-> [buf |-> <<>>, closed |-> FALSE]]
    /\ pc = "idle"
    /\ idx = 1
    /\ wg = 0
    /\ name2Location = EmptyMap
    /\ resolved = <<>>
    /\ dec = [j \in 1..MaxSlots |-> "none"]
    /\ enc = [j \in 1..MaxSlots |-> "none"]
    /\ fwd = [i \in 1..n |-> [pc |-> "none", t |-> 0]]
    /\ stage = [i \in 1..n |-> [pc |-> "none", t |-> 0]]
    /\ sent = [i \in 1..n |-> <<>>]
    /\ rcvd = [i \in 1..n |-> <<>>]
    /\ now = 1

\* "h-i1@x": the first input shard of the first task is served from x
WiredInputs == <<"h", "-", "i", "1", "@", "x">>

Init ==
    \E n \in 1..MaxTasks, fin \in FirstInputs, e \in 0..MaxSlots,
       m \in 1..MaxSlots, lo \in 1..MaxSlots, k \in 0..MaxVals, c \in Capacities :
        /\ n = 1 => m = 1
        /\ fin.len > 0 => e = 0
        /\ Max(fin.len + e, 1) + m + lo <= MaxSlots + 2
        /\ (IF fin.nil THEN e ELSE fin.len) = 0 => k = 0
        /\ InitWith(WiredInputs, n, fin, e, m, lo, k, c)

\* ------------------------------------------------------------- runner
firstTask == group[1]
lastTask == group[Len(group)]

\* time.Now(): the clock may or may not have moved on since it was last read
Tick == \E d \in 0..1 : now' = now + d

\* log.Panic in the runner, or a panic of the Go runtime in a unit: the runner
\* goes no further; other goroutines may still run until the process exits
Panicked == pc = "panicked"

\* Run is not executing: it was never accepted, or it has returned
Returned == pc = "idle" /\ FlowContext # 0

\* ShouldRun without the comparison of line 45
ShouldRunAnyContext(fc) == TRUE

\* line 45: is this runner responsible for the context?
ShouldRun(fc) == fc = option.ContextId

\* lines 48-53 of Run, for an accepted context
RunAccepted(fc) ==
    /\ fcBuf' = [fcBuf EXCEPT ![fc] = option.ChannelBufferSize]
    /\ Tasks' = [i \in 1..Len(group) |-> i]
    /\ FlowContext' = fc
    /\ executorStatus' = [executorStatus EXCEPT !.StartTime = now]
    /\ pc' = "wire"
    /\ UNCHANGED <<option, group, ds, fed, rawIn, rawOut, idx, wg, name2Location,
                   resolved, dec, fwd, stage, enc, sent, rcvd, now>>

\* lines 45-47 of Run: the early return
RunIgnored(fc) ==
    UNCHANGED <<option, Tasks, FlowContext, executorStatus, fcBuf, group, ds,
                fed, rawIn, rawOut, pc, idx, wg, name2Location, resolved,
                dec, fwd, stage, enc, sent, rcvd, now>>

\* A caller invokes Run(fc); every context is run once.
Run(fc) ==
    /\ pc = "idle"
    /\ fc \notin ran
    /\ ran' = ran \cup {fc}
    /\ IF ShouldRun(fc) THEN RunAccepted(fc) ELSE RunIgnored(fc)

\* connectInputsAndOutputs calling connectExternalOutputs (line 86) first
connectOutputsFirst ==
    /\ pc = "wire"
    /\ LET r == ParseInputs(option.Inputs) IN
        /\ name2Location' = r.map
        /\ pc' = IF r.ok THEN "phase4" ELSE "panicked"
    /\ idx' = 1
    /\ UNCHANGED <<option, Tasks, FlowContext, executorStatus, fcBuf, ran, group,
                   ds, fed, rawIn, rawOut, wg, resolved, dec, fwd, stage, enc,
                   sent, rcvd, now>>

\* lines 75-82: name2Location from option.Inputs
connectInputsAndOutputs ==
    /\ pc = "wire"
    /\ LET r == ParseInputs(option.Inputs) IN
        /\ name2Location' = r.map
        /\ pc' = IF r.ok THEN "phase1" ELSE "panicked"
    /\ idx' = 1
    /\ UNCHANGED <<option, Tasks, FlowContext, executorStatus, fcBuf, ran, group,
                   ds, fed, rawIn, rawOut, wg, resolved, dec, fwd, stage, enc,
                   sent, rcvd, now>>

\* the channel names of lines 117, 136 and 151
inputChanName(i) ==
    option.ExecutableFileHash \o <<"-", "c", "t", "-">> \o Itoa(option.ContextId)
        \o <<"-", "i", "n", "p", "u", "t", "-">> \o Itoa(ds.Id)
        \o <<"-", "p", "-">> \o Itoa(i - 1)
readChanName(i) == option.ExecutableFileHash \o <<"-", "i">> \o Itoa(i)
writeChanName(i) == option.ExecutableFileHash \o <<"-", "o">> \o Itoa(i)

\* one netchan resolution call: what was asked for, and whether it failed
Resolution(op, name, location, err) ==
    [op |-> op, name |-> name, location |-> location, err |-> err]

\* the error only logged: the runner carries on where it is
AfterResolveErrorLogged == pc

\* lines 120-122, 138-140, 154-156: log.Panic(err) ends the process
AfterResolveError == "panicked"

\* netchan.ConnectRawReadChannelToTyped(rawChan, typed, type, wg): registers
\* adapter j with the wait group and starts it
SpawnDec(j) ==
    /\ wg' = wg + 1
    /\ dec' = [dec EXCEPT ![j] = "run"]

\* netchan.ConnectTypedWriteChannelToRaw(typed, rawChan, wg)
SpawnEnc(j) ==
    /\ wg' = wg + 1
    /\ enc' = [enc EXCEPT ![j] = "run"]

\* the list started afresh instead of appended to
AppendInputStatusReset(st) ==
    [executorStatus EXCEPT !.InputChannelStatuses = <<st>>]

\* lines 124 and 143: append(tr.executorStatus.InputChannelStatuses, ...)
AppendInputStatus(st) ==
    [executorStatus EXCEPT !.InputChannelStatuses = Append(@, st)]

\* line 131: connectExternalInputChannels is for a task without inputs
IsSource(task) == task.Inputs.nil

\* lines 128-146
connectExternalInputChannels ==
    /\ pc = "phase1"
    /\ \/ /\ ~IsSource(firstTask)                      \* line 132: return
          /\ pc' = "phase2"
          /\ idx' = 1
          /\ UNCHANGED <<executorStatus, group, wg, resolved, dec>>
       \/ /\ IsSource(firstTask)
          /\ idx > ds.ExternalInputChans               \* loop exit
          /\ pc' = "phase2"
          /\ idx' = 1
          /\ UNCHANGED <<executorStatus, group, wg, resolved, dec>>
       \/ /\ IsSource(firstTask)
          /\ idx <= ds.ExternalInputChans
          /\ \/ /\ resolved' = Append(resolved,
                       Resolution("GetLocalReadChannel", inputChanName(idx), <<>>, TRUE))
                /\ pc' = AfterResolveError
                /\ UNCHANGED <<executorStatus, group, wg, dec, idx>>
             \/ /\ resolved' = Append(resolved,
                       Resolution("GetLocalReadChannel", inputChanName(idx), <<>>, FALSE))
                /\ SpawnDec(Len(firstTask.InputChans) + 1)
                /\ executorStatus' = AppendInputStatus(InStatus(idx))
                /\ group' = [group EXCEPT ![1].InputChans = Append(@, NewChan(0))]
                /\ idx' = idx + 1
                /\ pc' = pc
    /\ UNCHANGED <<option, Tasks, FlowContext, fcBuf, ran, ds, fed, rawIn, rawOut,
                   name2Location, fwd, stage, enc, sent, rcvd, now>>

\* lines 113-126
connectExternalInputs ==
    /\ pc = "phase2"
    /\ \/ /\ idx > firstTask.Inputs.len                \* loop exit
          /\ pc' = "phase3"
          /\ idx' = 1
          /\ UNCHANGED <<executorStatus, wg, resolved, dec>>
       \/ /\ idx <= firstTask.Inputs.len
          /\ \/ /\ resolved' = Append(resolved,
                       Resolution("GetDirectReadChannel", readChanName(idx),
                                  MapGet(name2Location, readChanName(idx)), TRUE))
                /\ pc' = AfterResolveError
                /\ UNCHANGED <<executorStatus, wg, dec, idx>>
             \/ /\ resolved' = Append(resolved,
                       Resolution("GetDirectReadChannel", readChanName(idx),
                                  MapGet(name2Location, readChanName(idx)), FALSE))
                /\ SpawnDec(idx)
                /\ executorStatus' = AppendInputStatus(InStatus(idx))
                /\ idx' = idx + 1
                /\ pc' = pc
    /\ UNCHANGED <<option, Tasks, FlowContext, fcBuf, ran, group, ds, fed, rawIn,
                   rawOut, name2Location, fwd, stage, enc, sent, rcvd, now>>

\* SpawnFwd without the wg.Add(1) of line 98
SpawnFwdUnregistered(i) ==
    /\ wg' = wg
    /\ fwd' = [fwd EXCEPT ![i] = [pc |-> "recv", t |-> 0]]

\* lines 98-99: register the forwarder of hop i, then start it
SpawnFwd(i) ==
    /\ wg' = wg + 1
    /\ fwd' = [fwd EXCEPT ![i] = [pc |-> "recv", t |-> 0]]

\* connectInternalInputsAndOutputs also starting task i (lines 62-66) in its
\* loop, before the external outputs are connected
connectInternalAndLaunch ==
    /\ pc = "phase3"
    /\ \/ /\ idx >= Len(Tasks)
          /\ pc' = "phase4"
          /\ idx' = 1
          /\ UNCHANGED <<group, wg, fwd, stage>>
       \/ /\ idx < Len(Tasks)
          /\ group' = [group EXCEPT ![idx].Outputs[1].readSetup = @ + 1]
          /\ wg' = wg + 2
          /\ fwd' = [fwd EXCEPT ![idx] = [pc |-> "recv", t |-> 0]]
          /\ stage' = [stage EXCEPT ![idx] = [pc |-> "recv", t |-> 0]]
          /\ idx' = idx + 1
          /\ pc' = pc
    /\ UNCHANGED <<option, Tasks, FlowContext, executorStatus, fcBuf, ran, ds,
                   fed, rawIn, rawOut, name2Location, resolved, dec, enc,
                   sent, rcvd, now>>

\* connectInternalInputsAndOutputs without the SetupReadingChans of line 96
connectInternalNoSetup ==
    /\ pc = "phase3"
    /\ \/ /\ idx >= Len(Tasks)
          /\ pc' = "phase4"
          /\ idx' = 1
          /\ UNCHANGED <<group, wg, fwd>>
       \/ /\ idx < Len(Tasks)
          /\ SpawnFwd(idx)
          /\ idx' = idx + 1
          /\ pc' = pc
          /\ UNCHANGED group
    /\ UNCHANGED <<option, Tasks, FlowContext, executorStatus, fcBuf, ran, ds,
                   fed, rawIn, rawOut, name2Location, resolved, dec, stage, enc,
                   sent, rcvd, now>>

\* lines 89-111
connectInternalInputsAndOutputs ==
    /\ pc = "phase3"
    /\ \/ /\ idx >= Len(Tasks)                         \* continue; loop exit
          /\ pc' = "phase4"
          /\ idx' = 1
          /\ UNCHANGED <<group, wg, fwd>>
       \/ /\ idx < Len(Tasks)
          /\ group' = [group EXCEPT ![idx].Outputs[1].readSetup = @ + 1]
          /\ SpawnFwd(idx)
          /\ idx' = idx + 1
          /\ pc' = pc
    /\ UNCHANGED <<option, Tasks, FlowContext, executorStatus, fcBuf, ran, ds,
                   fed, rawIn, rawOut, name2Location, resolved, dec, stage, enc,
                   sent, rcvd, now>>

\* lines 148-159
connectExternalOutputs ==
    /\ pc = "phase4"
    /\ \/ /\ idx > Len(lastTask.Outputs)               \* loop exit
          /\ pc' = "launch"
          /\ idx' = 1
          /\ UNCHANGED <<executorStatus, wg, resolved, enc>>
       \/ /\ idx <= Len(lastTask.Outputs)
          /\ \/ /\ resolved' = Append(resolved,
                       Resolution("GetLocalSendChannel", writeChanName(idx), <<>>, TRUE))
                /\ pc' = AfterResolveError
                /\ UNCHANGED <<executorStatus, wg, enc, idx>>
             \/ /\ resolved' = Append(resolved,
                       Resolution("GetLocalSendChannel", writeChanName(idx), <<>>, FALSE))
                /\ SpawnEnc(idx)
                /\ executorStatus' =
                       [executorStatus EXCEPT !.OutputChannelStatus = OutStatus(idx)]
                /\ idx' = idx + 1
                /\ pc' = pc
    /\ UNCHANGED <<option, Tasks, FlowContext, fcBuf, ran, group, ds, fed, rawIn,
                   rawOut, name2Location, dec, fwd, stage, sent, rcvd, now>>

\* SpawnStage without the wg.Add(1) of line 62
SpawnStageUnregistered(i) ==
    /\ wg' = wg
    /\ stage' = [stage EXCEPT ![i] = [pc |-> "recv", t |-> 0]]

\* lines 62-63: register task i, then start its goroutine
SpawnStage(i) ==
    /\ wg' = wg + 1
    /\ stage' = [stage EXCEPT ![i] = [pc |-> "recv", t |-> 0]]

\* lines 60-67 of Run
LaunchTasks ==
    /\ pc = "launch"
    /\ \/ /\ idx > Len(Tasks)
          /\ pc' = "wait"
          /\ UNCHANGED <<wg, stage, idx>>
       \/ /\ idx <= Len(Tasks)
          /\ SpawnStage(Tasks[idx])
          /\ idx' = idx + 1
          /\ pc' = pc
    /\ UNCHANGED <<option, Tasks, FlowContext, executorStatus, fcBuf, ran, group,
                   ds, fed, rawIn, rawOut, name2Location, resolved, dec, fwd, enc,
                   sent, rcvd, now>>

\* Run not waiting at line 69
WaitSkipped == TRUE

\* line 69: wg.Wait() returns
WaitReturns == wg = 0

\* lines 69-72 of Run
WaitAndStop ==
    /\ pc = "wait"
    /\ WaitReturns
    /\ Tick
    /\ executorStatus' = [executorStatus EXCEPT !.StopTime = now']
    /\ pc' = "idle"
    /\ UNCHANGED <<option, Tasks, FlowContext, fcBuf, ran, group, ds, fed, rawIn,
                   rawOut, idx, wg, name2Location, resolved, dec, fwd, stage,
                   enc, sent, rcvd>>

\* ---------------------------------------------------------- forwarder
\* The goroutine of lines 99-109 for the hop from task i to task i+1.
\* currentShard.WriteChan and the channel nextShard.SendForRead writes to
upstream(i) == group[i].Outputs[1].WriteChan
downstream(i) == group[i + 1].InputChans[1]

\* a shard's WriteChan can be received from once SetupReadingChans ran
Receivable(shard) == shard.readSetup > 0

\* line 102: Recv returned ok = false
RecvNotOk(c) == RecvClosed(c)

\* line 103: nextShard.SendForRead(t)
SendForRead(c, t) == ChanSend(c, t)

\* line 105: nextShard.CloseRead()
CloseRead(c) == ChanClose(c)

\* the loop of lines 101-108 without the break
AfterCloseReadNoBreak == "recv"

\* line 106: break leaves the loop, the goroutine ends
AfterCloseRead == "done"

\* FwdRecv also receiving while the last value is still to be sent on
FwdRecvAhead(i) ==
    /\ fwd[i].pc \in {"recv", "send"}
    /\ SendDone(downstream(i))
    /\ Receivable(group[i].Outputs[1])
    /\ CanRecv(upstream(i))
    /\ fwd' = [fwd EXCEPT ![i] = [pc |-> "send", t |-> Head(upstream(i).buf)]]
    /\ group' = [group EXCEPT ![i].Outputs[1].WriteChan = ChanRecv(@)]
    /\ UNCHANGED <<pc, wg>>

\* FwdRecv with currentShard taken from the last output slot instead of
\* Outputs[0]
FwdRecvLastSlot(i) ==
    LET o == Len(group[i].Outputs) IN
    /\ fwd[i].pc = "recv"
    /\ SendDone(downstream(i))
    /\ CanRecv(group[i].Outputs[o].WriteChan)
    /\ fwd' = [fwd EXCEPT ![i] = [pc |-> "send", t |-> Head(group[i].Outputs[o].WriteChan.buf)]]
    /\ group' = [group EXCEPT ![i].Outputs[o].WriteChan = ChanRecv(@)]
    /\ UNCHANGED <<pc, wg>>

\* line 102, ok = true
FwdRecv(i) ==
    /\ fwd[i].pc = "recv"
    /\ SendDone(downstream(i))
    /\ Receivable(group[i].Outputs[1])
    /\ CanRecv(upstream(i))
    /\ fwd' = [fwd EXCEPT ![i] = [pc |-> "send", t |-> Head(upstream(i).buf)]]
    /\ group' = [group EXCEPT ![i].Outputs[1].WriteChan = ChanRecv(@)]
    /\ UNCHANGED <<pc, wg>>

\* FwdSend without the call of line 103: the value is dropped
FwdSendSkipped(i) ==
    /\ fwd[i].pc = "send"
    /\ fwd' = [fwd EXCEPT ![i] = [pc |-> "recv", t |-> 0]]
    /\ UNCHANGED <<group, pc, wg>>

\* FwdSend with the call of line 103 made twice
FwdSendTwice(i) ==
    /\ fwd[i].pc = "send"
    /\ CanSend(downstream(i))
    /\ group' = [group EXCEPT ![i + 1].InputChans[1] =
                    SendForRead(SendForRead(@, fwd[i].t), fwd[i].t)]
    /\ fwd' = [fwd EXCEPT ![i] = [pc |-> "recv", t |-> 0]]
    /\ UNCHANGED <<pc, wg>>

\* FwdSend without the loop of line 101: after one value the forwarder
\* closes the downstream input and ends
FwdSendOnce(i) ==
    /\ fwd[i].pc = "send"
    /\ CanSend(downstream(i))
    /\ group' = [group EXCEPT ![i + 1].InputChans[1] =
                    CloseRead(SendForRead(@, fwd[i].t))]
    /\ fwd' = [fwd EXCEPT ![i] = [pc |-> "done", t |-> 0]]
    /\ wg' = wg - 1
    /\ UNCHANGED pc

\* line 103; a send on a closed channel panics
FwdSend(i) ==
    /\ fwd[i].pc = "send"
    /\ CanSend(downstream(i))
    /\ group' = [group EXCEPT ![i + 1].InputChans[1] = SendForRead(@, fwd[i].t)]
    /\ fwd' = [fwd EXCEPT ![i] = [pc |-> "recv", t |-> 0]]
    /\ pc' = IF downstream(i).closed THEN "panicked" ELSE pc
    /\ UNCHANGED wg

\* FwdClose closing the channel it received from instead of nextShard
FwdCloseUpstream(i) ==
    /\ fwd[i].pc = "recv"
    /\ SendDone(downstream(i))
    /\ Receivable(group[i].Outputs[1])
    /\ RecvNotOk(upstream(i))
    /\ group' = [group EXCEPT ![i].Outputs[1].WriteChan = ChanClose(@)]
    /\ fwd' = [fwd EXCEPT ![i].pc = AfterCloseRead]
    /\ wg' = wg - 1
    /\ pc' = "panicked"

\* lines 104-106 and the deferred wg.Done(); closing a closed channel panics
FwdClose(i) ==
    /\ fwd[i].pc = "recv"
    /\ SendDone(downstream(i))
    /\ Receivable(group[i].Outputs[1])
    /\ RecvNotOk(upstream(i))
    /\ group' = [group EXCEPT ![i + 1].InputChans[1] = CloseRead(@)]
    /\ fwd' = [fwd EXCEPT ![i].pc = AfterCloseRead]
    /\ wg' = IF AfterCloseRead = "done" THEN wg - 1 ELSE wg
    /\ pc' = IF downstream(i).closed THEN "panicked" ELSE pc

Forwarder(i) ==
    /\ FwdRecv(i) \/ FwdSend(i) \/ FwdClose(i)
    /\ UNCHANGED <<option, Tasks, FlowContext, executorStatus, fcBuf, ran, ds,
                   fed, rawIn, rawOut, idx, name2Location, resolved, dec, stage, enc,
                   sent, rcvd, now>>

\* ------------------------------------------------------------- stages
\* task.RunTask() of an identity stage: it passes on every value of every
\* input channel, value v going to output slot OutSlot(v, number of outputs),
\* and once every input is closed it closes its outputs and returns.
OutSlot(v, nOut) == ((v - 1) % nOut) + 1

OutputsSent(i) == \A s \in DOMAIN group[i].Outputs : SendDone(group[i].Outputs[s].WriteChan)

StageRecv(i, j) ==
    /\ stage[i].pc = "recv"
    /\ OutputsSent(i)
    /\ j \in DOMAIN group[i].InputChans
    /\ CanRecv(group[i].InputChans[j])
    /\ stage' = [stage EXCEPT ![i] = [pc |-> "send", t |-> Head(group[i].InputChans[j].buf)]]
    /\ group' = [group EXCEPT ![i].InputChans[j] = ChanRecv(@)]
    /\ rcvd' = IF i > 1 /\ j = 1
               THEN [rcvd EXCEPT ![i - 1] = Append(@, Head(group[i].InputChans[j].buf))]
               ELSE rcvd
    /\ UNCHANGED <<wg, sent>>

StageSend(i) ==
    LET s == OutSlot(stage[i].t, Len(group[i].Outputs)) IN
    /\ stage[i].pc = "send"
    /\ CanSend(group[i].Outputs[s].WriteChan)
    /\ group' = [group EXCEPT ![i].Outputs[s].WriteChan = ChanSend(@, stage[i].t)]
    /\ stage' = [stage EXCEPT ![i] = [pc |-> "recv", t |-> 0]]
    /\ sent' = IF s = 1 THEN [sent EXCEPT ![i] = Append(@, stage[i].t)] ELSE sent
    /\ UNCHANGED <<wg, rcvd>>

\* every input reported closed: close the outputs, return; then the
\* deferred wg.Done() of line 64
StageReturn(i) ==
    /\ stage[i].pc = "recv"
    /\ OutputsSent(i)
    /\ \A j \in DOMAIN group[i].InputChans : RecvClosed(group[i].InputChans[j])
    /\ group' = [group EXCEPT ![i].Outputs =
                    [s \in DOMAIN @ |-> [@[s] EXCEPT !.WriteChan = ChanClose(@)]]]
    /\ stage' = [stage EXCEPT ![i].pc = "done"]
    /\ wg' = wg - 1
    /\ UNCHANGED <<sent, rcvd>>

Stage(i) ==
    /\ (\E j \in 1..MaxSlots : StageRecv(i, j)) \/ StageSend(i) \/ StageReturn(i)
    /\ UNCHANGED <<option, Tasks, FlowContext, executorStatus, fcBuf, ran, ds,
                   fed, rawIn, rawOut, pc, idx, name2Location, resolved, dec, fwd, enc,
                   now>>

\* ----------------------------------------------------------- adapters
\* The decode loop of netchan.ConnectRawReadChannelToTyped for first-task
\* input slot j: raw values go to the typed channel, which it closes when the
\* raw channel is exhausted; then wg.Done().
DecForward(j) ==
    /\ rawIn[j] # <<>>
    /\ CanSend(firstTask.InputChans[j])
    /\ rawIn' = [rawIn EXCEPT ![j] = Tail(@)]
    /\ group' = [group EXCEPT ![1].InputChans[j] = ChanSend(@, Head(rawIn[j]))]
    /\ UNCHANGED <<dec, wg>>

DecClose(j) ==
    /\ rawIn[j] = <<>>
    /\ group' = [group EXCEPT ![1].InputChans[j] = ChanClose(@)]
    /\ dec' = [dec EXCEPT ![j] = "done"]
    /\ wg' = wg - 1
    /\ UNCHANGED rawIn

Decoder(j) ==
    /\ dec[j] = "run"
    /\ SendDone(firstTask.InputChans[j])
    /\ DecForward(j) \/ DecClose(j)
    /\ UNCHANGED <<option, Tasks, FlowContext, executorStatus, fcBuf, ran, ds,
                   fed, rawOut, pc, idx, name2Location, resolved, fwd, stage, enc,
                   sent, rcvd, now>>

\* The encode loop of netchan.ConnectTypedWriteChannelToRaw for last-task
\* output slot j: typed values go to the raw channel, which it closes when
\* the typed channel is closed and drained; then wg.Done().
EncForward(j) ==
    /\ CanRecv(lastTask.Outputs[j].WriteChan)
    /\ rawOut' = [rawOut EXCEPT ![j].buf = Append(@, Head(lastTask.Outputs[j].WriteChan.buf))]
    /\ group' = [group EXCEPT ![Len(group)].Outputs[j].WriteChan = ChanRecv(@)]
    /\ UNCHANGED <<enc, wg>>

EncClose(j) ==
    /\ RecvClosed(lastTask.Outputs[j].WriteChan)
    /\ rawOut' = [rawOut EXCEPT ![j].closed = TRUE]
    /\ enc' = [enc EXCEPT ![j] = "done"]
    /\ wg' = wg - 1
    /\ UNCHANGED group

Encoder(j) ==
    /\ enc[j] = "run"
    /\ EncForward(j) \/ EncClose(j)
    /\ UNCHANGED <<option, Tasks, FlowContext, executorStatus, fcBuf, ran, ds,
                   fed, rawIn, pc, idx, name2Location, resolved, dec, fwd, stage,
                   sent, rcvd, now>>

\* ------------------------------------------------------ specification
Next ==
    \/ \E fc \in Contexts : Run(fc)
    \/ connectInputsAndOutputs
    \/ connectExternalInputChannels
    \/ connectExternalInputs
    \/ connectInternalInputsAndOutputs
    \/ connectExternalOutputs
    \/ LaunchTasks
    \/ WaitAndStop
    \/ \E i \in 1..Len(group) - 1 : Forwarder(i)
    \/ \E i \in 1..Len(group) : Stage(i)
    \/ \E j \in 1..MaxSlots : Decoder(j)
    \/ \E j \in 1..MaxSlots : Encoder(j)

Spec == Init /\ [][Next]_vars

\* the steps of the goroutine that calls Run, and those of the units
RunnerStep ==
    \/ \E fc \in Contexts : Run(fc)
    \/ connectInputsAndOutputs
    \/ connectExternalInputChannels
    \/ connectExternalInputs
    \/ connectInternalInputsAndOutputs
    \/ connectExternalOutputs
    \/ LaunchTasks
    \/ WaitAndStop

\* The Go scheduler runs every goroutine that can take a step: the runner
\* and every unit is scheduled fairly.
Fairness ==
    /\ WF_vars(RunnerStep)
    /\ \A i \in 1..MaxTasks : WF_vars(i < Len(group) /\ Forwarder(i))
    /\ \A i \in 1..MaxTasks : WF_vars(i <= Len(group) /\ Stage(i))
    /\ \A j \in 1..MaxSlots : WF_vars(Decoder(j))
    /\ \A j \in 1..MaxSlots : WF_vars(Encoder(j))

SpecLive == Init /\ [][Next]_vars /\ Fairness

\* The runner of a one-task group, for every option.Inputs string up to MaxLen:
\* Run up to the end of lines 75-82.
InitParse ==
    \E inputs \in Strings(MaxLen) :
        InitWith(inputs, 1, SomeInputs(1), 0, 1, 1, 0, 0)

NextParse ==
    \/ \E fc \in Contexts : Run(fc)
    \/ connectInputsAndOutputs

SpecParse == InitParse /\ [][NextParse]_vars

TypeOK ==
    /\ pc \in {"idle", "wire", "phase1", "phase2", "phase3", "phase4", "launch",
               "wait", "panicked"}
    /\ wg \in 0..(2 * MaxSlots + 2 * MaxTasks)
    /\ \A i \in 1..Len(group) : \A j \in DOMAIN group[i].InputChans :
           Len(group[i].InputChans[j].buf) <= Max(group[i].InputChans[j].cap, 1)

\* ------------------------------------------------------------- claims
IsPrefix(a, b) == Len(a) <= Len(b) /\ a = SubSeq(b, 1, Len(a))

Hops == 1..Len(group) - 1

FwdRunning(i) == fwd[i].pc \in {"recv", "send"}
StageRunning(i) == stage[i].pc \in {"recv", "send"}
AnyUnitRunning ==
    \/ \E i \in 1..Len(group) : FwdRunning(i) \/ StageRunning(i)
    \/ \E j \in 1..MaxSlots : dec[j] = "run" \/ enc[j] = "run"

\* C1: once an accepted Run has returned, every task has been launched and
\* its RunTask has returned, every forwarder has ended and every adapter has
\* signalled completion: no unit is still running.
C1_RunReturnsAfterAllUnits ==
    Returned =>
        /\ \A i \in 1..Len(group) : stage[i].pc = "done"
        /\ \A i \in Hops : fwd[i].pc = "done"
        /\ ~AnyUnitRunning

C1_Witness ==
    /\ Returned
    /\ Len(group) = MaxTasks
    /\ fwd[1].pc = "done"
    /\ dec[1] = "done"
    /\ enc[1] = "done"
    /\ Len(rawOut[1].buf) = MaxVals

\* what the forwarder of hop i holds between its Recv and its SendForRead
Held(i) == IF fwd[i].pc = "send" THEN <<fwd[i].t>> ELSE <<>>

HopDrained(i) == fwd[i].pc = "done" /\ downstream(i).buf = <<>>

\* C2: on every hop, what task i+1 has received on its input is at all times
\* a prefix of what task i has sent on its output, the values in between are
\* exactly those still in the hop, in order, and once the hop has drained
\* the two sequences are equal.
C2_HopIsFifo ==
    \A i \in Hops :
        /\ IsPrefix(rcvd[i], sent[i])
        /\ sent[i] = rcvd[i] \o downstream(i).buf \o Held(i) \o upstream(i).buf
        /\ HopDrained(i) => rcvd[i] = sent[i]

C2_Witness ==
    /\ Len(group) = MaxTasks
    /\ HopDrained(1)
    /\ Len(sent[1]) = MaxVals
    /\ rcvd[1] = sent[1]

\* C3: on every hop the downstream input is closed only once the upstream
\* output has reported closed, is empty, and every value sent on it has been
\* put on the downstream input; and whenever the downstream reader sees the
\* input closed it has received every value sent upstream.
C3_CloseAfterLastValue ==
    \A i \in Hops :
        /\ downstream(i).closed =>
               /\ upstream(i).closed
               /\ upstream(i).buf = <<>>
               /\ Held(i) = <<>>
               /\ sent[i] = rcvd[i] \o downstream(i).buf
        /\ RecvClosed(downstream(i)) => rcvd[i] = sent[i]

C3_Witness ==
    /\ Len(group) = MaxTasks
    /\ downstream(1).closed
    /\ downstream(1).buf # <<>>
    /\ Len(sent[1]) = MaxVals

\* everything of the runner, the context and the units but the record of
\* which contexts Run was called with
runState == <<option, Tasks, FlowContext, executorStatus, fcBuf, group, ds, fed,
              rawIn, rawOut, pc, idx, wg, name2Location, resolved, dec, fwd,
              stage, enc, sent, rcvd, now>>

\* C4: a call Run(fc) with fc.Id different from option.ContextId changes
\* nothing: no endpoint is resolved, no unit is registered or started, and
\* ExecutorStatus, tr.Tasks and every context's ChannelBufferSize stay as
\* they were.
C4_MismatchIsNoOp ==
    [][(\E fc \in Contexts : /\ fc # option.ContextId
                             /\ fc \notin ran
                             /\ ran' = ran \cup {fc})
          => UNCHANGED runState]_vars

C4_Witness ==
    /\ ran # {}
    /\ option.ContextId \notin ran
    /\ Tasks = <<>>
    /\ resolved = <<>>
    /\ ~AnyUnitRunning

\* every task of the group has one input and one output
Linear ==
    /\ firstTask.Inputs.len = 1
    /\ \A i \in 1..Len(group) :
           Len(group[i].InputChans) = 1 /\ Len(group[i].Outputs) = 1

\* C5: for a group of identity tasks with one input and one output each,
\* the external output holds at all times a prefix of the values fed to the
\* external input, it is closed only once it holds all of them, and when
\* Run has returned it holds exactly them, in order, and is closed.
C5_EndToEnd ==
    Linear =>
        /\ IsPrefix(rawOut[1].buf, fed[1])
        /\ rawOut[1].closed => rawOut[1].buf = fed[1]
        /\ Returned => rawOut[1].closed /\ rawOut[1].buf = fed[1]

C5_Witness ==
    /\ Linear
    /\ Len(group) = MaxTasks
    /\ Returned
    /\ rawOut[1].closed
    /\ Len(fed[1]) = MaxVals
    /\ rawOut[1].buf = fed[1]

WiringDone == pc \in {"launch", "wait"} \/ Returned

Forwarders == {i \in 1..Len(group) : fwd[i].pc # "none"}
Adapters == {<<"dec", j>> : j \in {x \in 1..MaxSlots : dec[x] # "none"}}
                \cup {<<"enc", j>> : j \in {x \in 1..MaxSlots : enc[x] # "none"}}

\* C6: once wiring is done there are exactly N-1 forwarders and as many
\* adapters as boundary shards: the first task's input slots, or the
\* declared external inputs of its output dataset when it has no inputs,
\* plus the last task's output shards.
C6_WiringCounts ==
    WiringDone =>
        /\ Cardinality(Forwarders) = Len(group) - 1
        /\ Cardinality(Adapters) =
               (IF firstTask.Inputs.len = 0 THEN ds.ExternalInputChans
                ELSE firstTask.Inputs.len) + Len(lastTask.Outputs)

ResolutionFailed == \E x \in DOMAIN resolved : resolved[x].err

\* what the runner itself writes, and the units it has started
runnerState == <<Tasks, FlowContext, executorStatus, fcBuf, ran, pc, idx,
                 name2Location, resolved>>
Started == <<Forwarders, Adapters, {i \in 1..Len(group) : stage[i].pc # "none"}>>

\* C7: when a resolution call returns an error the runner is gone at that
\* call: the failed call is the last one made, no task has been or ever is
\* launched, Run does not return, StopTime is never recorded, and from then
\* on the runner writes nothing and starts nothing.
C7_ResolutionErrorIsFatal ==
    [][/\ ResolutionFailed' =>
              /\ Panicked'
              /\ resolved'[Len(resolved')].err
              /\ \A i \in 1..Len(group') : stage'[i].pc = "none"
              /\ executorStatus'.StopTime = 0
              /\ ~Returned'
       /\ ResolutionFailed => UNCHANGED <<runnerState, Started>>]_vars

C7_Witness ==
    /\ ResolutionFailed
    /\ Panicked
    /\ Len(resolved) > 1
    /\ \E i \in Hops : fwd[i].pc # "none"

\* the tokens of the inputs string, and a token's parts at its first "@"
TokenName(tok) == SubSeq(tok, 1, IndexFrom(tok, "@", 1) - 1)
TokenLocation(tok) == SubSeq(tok, IndexFrom(tok, "@", 1) + 1, Len(tok))

\* C8: once name2Location is built it holds, for every comma-separated token
\* of option.Inputs, the text before the token's first "@" mapped to all of
\* the text after it; for the empty string it is empty.
C8_MappingSplitsOnFirstAt ==
    pc = "phase1" =>
        IF option.Inputs = <<>> THEN name2Location = EmptyMap
        ELSE LET toks == Split(option.Inputs, ",") IN
             \A x \in DOMAIN toks :
                 /\ TokenName(toks[x]) \in DOMAIN name2Location
                 /\ name2Location[TokenName(toks[x])] = TokenLocation(toks[x])

\* C9: StartTime is recorded before any wiring or launch, StopTime only once
\* every unit has ended, and when Run has returned StopTime >= StartTime.
C9_Timestamps ==
    /\ executorStatus.StartTime = 0 =>
           /\ pc = "idle"
           /\ resolved = <<>>
           /\ wg = 0
           /\ ~AnyUnitRunning
    /\ executorStatus.StopTime # 0 =>
           /\ ~AnyUnitRunning
           /\ \A i \in 1..Len(group) : stage[i].pc = "done"
    /\ Returned =>
           /\ executorStatus.StopTime # 0
           /\ executorStatus.StopTime >= executorStatus.StartTime

C9_Witness ==
    /\ Returned
    /\ Len(group) = MaxTasks
    /\ executorStatus.StopTime = executorStatus.StartTime
    /\ Len(rawOut[1].buf) = MaxVals

InputShards == {<<i, j>> \in (1..Len(group)) \X (1..MaxSlots) :
                   j \in DOMAIN group[i].InputChans}

\* C10: every input shard's channel has been closed at most once, nothing
\* was sent on it after its close, and a channel once closed stays closed.
C10_ClosedOnceNoSendAfter ==
    \A sh \in InputShards :
        LET c == group[sh[1]].InputChans[sh[2]] IN
        /\ c.closes <= 1
        /\ c.late = 0
        /\ c.closed <=> c.closes = 1

C10_Witness ==
    /\ Len(group) = MaxTasks
    /\ Returned
    /\ \A sh \in InputShards : group[sh[1]].InputChans[sh[2]].closes = 1
    /\ Len(rcvd[1]) = MaxVals

\* a step sent on, or closed, the channel that was c and is now d
Wrote(c, d) == d.closes # c.closes \/ d.late # c.late \/ Len(d.buf) > Len(c.buf)

\* C11: every channel has one writer-owner.  A step that sends on or closes
\* the input of task i+1 fed by hop i is a step of forwarder i and of no
\* other unit; a step that sends on or closes an input channel of the first
\* task is a step of that slot's decode adapter; a step that sends on or
\* closes a task's output channel is a step of that task's own goroutine,
\* never of a forwarder or an adapter.
C11_SingleWriterOwner ==
    [][/\ \A i \in Hops :
              Wrote(downstream(i), group'[i + 1].InputChans[1]) =>
                  /\ FwdRunning(i)
                  /\ fwd'[i] # fwd[i]
                  /\ UNCHANGED <<stage, dec, enc, rawIn, rawOut>>
       /\ \A j \in DOMAIN firstTask.InputChans :
              Wrote(firstTask.InputChans[j], group'[1].InputChans[j]) =>
                  /\ dec[j] = "run"
                  /\ rawIn'[j] # rawIn[j] \/ dec'[j] # dec[j]
                  /\ UNCHANGED <<fwd, stage, enc, rawOut>>
       /\ \A i \in 1..Len(group) : \A o \in DOMAIN group[i].Outputs :
              Wrote(group[i].Outputs[o].WriteChan, group'[i].Outputs[o].WriteChan) =>
                  /\ StageRunning(i)
                  /\ stage'[i] # stage[i]
                  /\ UNCHANGED <<fwd, dec, enc, rawIn, rawOut>>]_vars

C11_Witness ==
    /\ Len(group) = MaxTasks
    /\ firstTask.Inputs.len = 1
    /\ firstTask.InputChans[1].closes = 1
    /\ upstream(1).closes = 1
    /\ downstream(1).closes = 1
    /\ lastTask.Outputs[1].WriteChan.closes = 1
    /\ Len(rawOut[1].buf) = MaxVals

\* every forwarder has closed its downstream input and ended, every adapter
\* has ended, and Run has returned
AllDone ==
    /\ Returned
    /\ \A i \in Hops : fwd[i].pc = "done" /\ downstream(i).closed
    /\ \A j \in 1..MaxSlots : dec[j] # "run" /\ enc[j] # "run"

\* C12: with every goroutine scheduled fairly, every external input closed
\* after finitely many values, every stage returning once its inputs are
\* closed and the external output always drained, a run whose resolutions
\* succeed ends: every forwarder closes its downstream input and ends,
\* every adapter ends and Run returns.
C12_RunEventuallyReturns == <>(AllDone \/ ResolutionFailed)

\* the wiring phase a resolution call belongs to
PhaseOf(op) ==
    CASE op = "GetLocalReadChannel" -> 1
      [] op = "GetDirectReadChannel" -> 2
      [] op = "GetLocalSendChannel" -> 4

Decoders == {j \in 1..MaxSlots : dec[j] # "none"}
Encoders == {j \in 1..MaxSlots : enc[j] # "none"}
Launched == {i \in 1..Len(group) : stage[i].pc # "none"}

\* the input adapters phases 1 and 2 of the code create for this group
InputAdapters == IF IsSource(firstTask) THEN ds.ExternalInputChans ELSE firstTask.Inputs.len

\* C13: the resolution calls are made in phase order; a forwarder exists
\* only once both input phases have finished, an output adapter only once
\* every forwarder has been spawned, a launched task only once every output
\* adapter exists; and Run waits only once every task has been launched.
C13_PhasesInOrder ==
    /\ \A x, y \in DOMAIN resolved :
           x < y => PhaseOf(resolved[x].op) <= PhaseOf(resolved[y].op)
    /\ Forwarders # {} =>
           /\ Cardinality(Decoders) = InputAdapters
           /\ pc \notin {"wire", "phase1", "phase2"}
    /\ Encoders # {} =>
           /\ Forwarders = Hops
           /\ pc \notin {"wire", "phase1", "phase2", "phase3"}
    /\ Launched # {} =>
           /\ Cardinality(Encoders) = Len(lastTask.Outputs)
           /\ Cardinality(Decoders) = InputAdapters
           /\ Forwarders = Hops
           /\ pc \in {"launch", "wait"} \/ Returned
    /\ pc = "wait" \/ Returned => Launched = 1..Len(group)

C13_Witness ==
    /\ pc = "wait"
    /\ Len(group) = MaxTasks
    /\ Cardinality(Decoders) = 1
    /\ Forwarders = Hops
    /\ Cardinality(Encoders) = Len(lastTask.Outputs)
    /\ Launched = 1..Len(group)
    /\ \E i \in 1..Len(group) : StageRunning(i)

\* the successful resolution calls of one kind
Resolved(op) == {x \in DOMAIN resolved : resolved[x].op = op /\ ~resolved[x].err}

InputPhasesDone == pc \in {"phase3", "phase4", "launch", "wait"} \/ Returned

\* C14: once both input phases have run, a first task with zero input slots,
\* its Inputs absent or present but empty, has been wired by phase 1 alone:
\* one local read channel, one typed input channel and one decode adapter
\* per declared external input of its output dataset, nothing from phase 2;
\* a first task with input slots has been wired by phase 2 alone, one
\* adapter per slot.
C14_SourceRouting ==
    InputPhasesDone =>
        /\ firstTask.Inputs.len = 0 =>
               /\ Cardinality(Resolved("GetLocalReadChannel")) = ds.ExternalInputChans
               /\ Cardinality(Resolved("GetDirectReadChannel")) = 0
               /\ Len(firstTask.InputChans) = ds.ExternalInputChans
               /\ Cardinality(Decoders) = ds.ExternalInputChans
        /\ firstTask.Inputs.len > 0 =>
               /\ Cardinality(Resolved("GetLocalReadChannel")) = 0
               /\ Cardinality(Resolved("GetDirectReadChannel")) = firstTask.Inputs.len
               /\ Cardinality(Decoders) = firstTask.Inputs.len

\* the channel-status fields of ExecutorStatus
statusFields ==
    <<executorStatus.InputChannelStatuses, executorStatus.OutputChannelStatus>>

\* C15 as stated: a step that writes a channel-status field is taken while
\* no forwarder, adapter or task of the run has been started.
C15_StatusWrittenBeforeAnyUnit ==
    [][statusFields' # statusFields =>
           Forwarders = {} /\ Adapters = {} /\ Launched = {}]_vars

\* C15 amended: a step that writes a channel-status field is a wiring step
\* of the runner itself, in phase 1, 2 or 4, taken before any task is
\* launched; it moves no forwarder and no task, and of the adapters only
\* starts the one whose status it records.  Forwarders and adapters started
\* by earlier wiring steps may be running meanwhile.
C15_StatusWrittenByRunnerBeforeLaunch ==
    [][statusFields' # statusFields =>
           /\ pc \in {"phase1", "phase2", "phase4"}
           /\ Launched = {} /\ Launched' = {}
           /\ UNCHANGED <<fwd, stage, rawIn, rawOut, sent, rcvd>>
           /\ \A j \in 1..MaxSlots :
                  /\ dec'[j] # dec[j] => dec[j] = "none" /\ dec'[j] = "run"
                  /\ enc'[j] # enc[j] => enc[j] = "none" /\ enc'[j] = "run"]_vars

C15_Witness ==
    /\ pc = "launch"
    /\ Launched = {}
    /\ Len(executorStatus.InputChannelStatuses) = MaxSlots
    /\ executorStatus.OutputChannelStatus # NoStatus
    /\ \E i \in Hops : FwdRunning(i)
    /\ \E j \in 1..MaxSlots : dec[j] = "done"

\* the units that were registered with the wait group and have not finished
Unfinished ==
    Cardinality({i \in 1..Len(group) : FwdRunning(i)})
        + Cardinality({i \in 1..Len(group) : StageRunning(i)})
        + Cardinality({j \in 1..MaxSlots : dec[j] = "run"})
        + Cardinality({j \in 1..MaxSlots : enc[j] = "run"})

\* an accepted Run has not yet reached wg.Wait(): units are still to be
\* registered (at least the tasks not yet launched)
StillRegistering ==
    \/ pc \in {"wire", "phase1", "phase2", "phase3", "phase4"}
    \/ pc = "launch" /\ idx <= Len(Tasks)

\* C16 as stated: the counter is never negative, equals the number of
\* registered units that have not finished, is zero when Run has returned,
\* and never comes down to zero while a unit is still to be registered.
C16_TrackerNeverZeroEarly ==
    [][/\ wg' >= 0
       /\ wg' = Unfinished'
       /\ Returned' => wg' = 0
       /\ wg > 0 /\ wg' = 0 => ~StillRegistering']_vars

\* C16 amended: the counter is never negative, equals the number of
\* registered units that have not finished, Run starts waiting only with
\* every unit registered, and the counter is zero when Run has returned.
C16_TrackerDiscipline ==
    /\ wg >= 0
    /\ wg = Unfinished
    /\ pc = "wait" \/ Returned =>
           /\ Launched = 1..Len(group)
           /\ Forwarders = Hops
    /\ Returned => wg = 0 /\ Unfinished = 0

\* the counter back at zero in the middle of wiring
C16_Witness ==
    /\ pc = "phase3"
    /\ Len(group) = MaxTasks
    /\ wg = 0
    /\ Cardinality(Decoders) = MaxSlots
    /\ \A j \in Decoders : dec[j] = "done"
    /\ Forwarders = {}

\* how often SetupReadingChans was called on the shard forwarder i reads
SetupCalls(i) == group[i].Outputs[1].readSetup

\* C17: the shard a forwarder reads was set up, once, before the forwarder
\* was spawned, so a forwarder that has received or has seen the channel
\* closed did so on a set-up shard; once the internal phase is over every
\* non-final task's output shard has been set up exactly once; and no
\* output shard of the final task is ever set up.
C17_SetupBeforeForwarder ==
    /\ \A i \in Hops :
           /\ SetupCalls(i) <= 1
           /\ fwd[i].pc # "none" => SetupCalls(i) = 1
           /\ fwd[i].pc \in {"send", "done"} => Receivable(group[i].Outputs[1])
           /\ pc \in {"phase4", "launch", "wait"} \/ Returned => SetupCalls(i) = 1
    /\ \A o \in DOMAIN lastTask.Outputs : lastTask.Outputs[o].readSetup = 0

C17_Witness ==
    /\ Len(group) = MaxTasks
    /\ Returned
    /\ \A i \in Hops : SetupCalls(i) = 1 /\ fwd[i].pc = "done"
    /\ Len(lastTask.Outputs) = MaxSlots
    /\ Len(rcvd[1]) = MaxVals

\* values forwarder i has received from upstream / has put on downstream
Taken(i) == Len(sent[i]) - Len(upstream(i).buf)
Delivered(i) == Len(rcvd[i]) + Len(downstream(i).buf)

\* C18: a forwarder has at all times received at most one value more than
\* it has sent on, exactly when it is between its Recv and its SendForRead;
\* it receives only when it holds nothing; and once it has seen the
\* upstream channel closed it holds nothing and receives nothing more.
C18_ForwarderHoldsAtMostOne ==
    [][\A i \in Hops :
          /\ Taken(i)' - Delivered(i)' \in {0, 1}
          /\ Taken(i)' - Delivered(i)' = 1 <=> fwd'[i].pc = "send"
          /\ Taken(i)' > Taken(i) =>
                 /\ fwd[i].pc = "recv"
                 /\ Taken(i) = Delivered(i)
                 /\ Taken(i)' = Taken(i) + 1
          /\ fwd[i].pc = "done" =>
                 /\ Taken(i)' = Taken(i)
                 /\ Taken(i) = Delivered(i)
                 /\ fwd'[i] = fwd[i]]_vars

C18_Witness ==
    /\ Len(group) = MaxTasks
    /\ fwd[1].pc = "send"
    /\ Taken(1) = MaxVals
    /\ Delivered(1) = MaxVals - 1
    /\ upstream(1).closed

\* C19: whatever the numbers of slots, once wiring is done there is one
\* forwarder per adjacent pair and it works on slot 0 only: an output slot
\* other than 0 of a non-final task is never set up and never received
\* from, an input slot other than 0 of a non-first task is never sent to
\* and never closed, and a task with such an input slot never returns, so
\* that Run never returns.
C19_SlotZeroOnly ==
    [][/\ WiringDone' => Forwarders' = Hops
       /\ \A i \in Hops : \A o \in DOMAIN group[i].Outputs : o > 1 =>
              /\ group'[i].Outputs[o].readSetup = 0
              /\ IsPrefix(group[i].Outputs[o].WriteChan.buf,
                          group'[i].Outputs[o].WriteChan.buf)
       /\ \A i \in 2..Len(group) : \A j \in DOMAIN group[i].InputChans : j > 1 =>
              /\ group'[i].InputChans[j].buf = <<>>
              /\ group'[i].InputChans[j].closes = 0
              /\ ~group'[i].InputChans[j].closed
       /\ \A i \in 2..Len(group) : Len(group[i].InputChans) > 1 =>
              /\ stage'[i].pc # "done"
              /\ ~Returned']_vars

\* a two-slot hop: slot 0 has been relayed and closed, the value sent to
\* output slot 1 is still there, and task 2 is waiting with Run
C19_Witness ==
    /\ Len(group) = MaxTasks
    /\ Len(group[1].Outputs) = MaxSlots
    /\ Len(group[2].InputChans) = MaxSlots
    /\ pc = "wait"
    /\ fwd[1].pc = "done"
    /\ RecvClosed(downstream(1))
    /\ group[1].Outputs[2].WriteChan.buf # <<>>
    /\ stage[1].pc = "done"
    /\ stage[2].pc = "recv"

\* the statuses of input adapters 1..k, in slot order
InStatuses(k) == [x \in 1..k |-> InStatus(x)]

====
